---------------------------- MODULE Spec2Model ----------------------------
(***************************************************************************)
(* The OutOfBound notification rule plugin (src/plugin.cpp,                *)
(* src/include/outofbound.h) as a state machine.                           *)
(*                                                                         *)
(* The plugin is passive: it runs inside the calls of its host.  Three     *)
(* host threads are modelled, one per kind of call that takes time:        *)
(*   - the configurer: plugin_init / plugin_reconfigure, both of which     *)
(*     run OutOfBound::configure;                                          *)
(*   - the evaluator:  plugin_eval;                                        *)
(*   - the reader:     plugin_triggers;                                    *)
(* plus plugin_reason, which is a single read.  Each handler is cut at its *)
(* lock()/unlock() calls and at its loop over the trigger map, so that the *)
(* interleavings the mutex allows (and the ones it does not prevent) are   *)
(* all there.  A call ends in a "ret" position that holds what it returns; *)
(* the step back to "idle" hands that to the host and drops the locals.    *)
(*                                                                         *)
(* JSON documents are modelled by their parsed form:                       *)
(*   - a string that does not parse is the record [kind |-> "parseError"]; *)
(*   - an optional member is a sequence of length 0 (absent) or 1;         *)
(*   - a JSON number is [t |-> <class>, v |-> <bits>] where the class is   *)
(*     the set of rapidjson flags the parser gives it:                     *)
(*       "double"  a number written with a fraction or exponent, value v   *)
(*       "int"     an integer in the int32 range, value v                  *)
(*                 (rapidjson also flags it Uint when v >= 0, and Int64)   *)
(*       "uint"    an integer in 2^31 .. 2^32-1: Uint, Int64 and Uint64    *)
(*                 but NOT Int; v is its low 32 bits read as an int, that  *)
(*                 is value - 2^32 (3000000000 is v = -1294967296)         *)
(*       "int64"   an integer in 2^32 .. 2^63-1: Int64 and Uint64 only     *)
(*       "uint64"  an integer in 2^63 .. 2^64-1: Uint64 only               *)
(*     TLC's integers are 32 bits wide, so the two 64-bit classes carry no *)
(*     magnitude: every trigger value of the model is in 0 .. 2^31-1,      *)
(*     hence below every "int64" number and above every "uint64" number    *)
(*     read as an int64_t (which is negative).                             *)
(***************************************************************************)
EXTENDS Integers, Sequences, FiniteSets, TLC

VARIABLES
    triggers,     \* BuiltinRule::m_triggers: asset name -> RuleTrigger
    state,        \* BuiltinRule::m_state
    mutex,        \* OutOfBound::m_configMutex: "free" or the holder
    ndebug,       \* the build: TRUE when RAPIDJSON_ASSERT is compiled out
    handle,       \* plugin_init has returned the handle to the host
    cfgPc,        \* configurer: position inside OutOfBound::configure
    cfgDoc,       \* configurer: the parsed rule_config document of the call
    cfgQueue,     \* configurer: the addTrigger calls the loops still make
    cfgOld,       \* configurer: m_triggers as it was when the call began
    evalPc,       \* evaluator: position inside plugin_eval
    evalDoc,      \* evaluator: the parsed assetValues document of the call
    evalT,        \* evaluator: the map iterator t (a key, or End)
    eval,         \* evaluator: the local variable eval
    evalResults,  \* evaluator: asset -> what evalAsset returned in this call
    evalRaced,    \* evaluator: the map was written while plugin_eval read it
    evalRet,      \* evaluator: the value plugin_eval is returning
    evalLast,     \* what the most recent plugin_eval call returned
    evalGood,     \* the same, of the calls whose document parsed
    trigPc,       \* reader: position inside plugin_triggers
    trigRet,      \* reader: the value plugin_triggers is returning
    reasonPc,     \* position inside plugin_reason
    reasonRet     \* the value plugin_reason is returning

vars == <<triggers, state, mutex, ndebug, handle, cfgPc, cfgDoc, cfgQueue, cfgOld,
          evalPc, evalDoc, evalT, eval, evalResults, evalRaced, evalRet,
          evalLast, evalGood, trigPc, trigRet, reasonPc, reasonRet>>

cfgVars == <<cfgPc, cfgDoc, cfgQueue, cfgOld>>

evalVars == <<evalPc, evalDoc, evalT, eval, evalResults, evalRaced, evalRet,
              evalLast, evalGood>>

trigVars == <<trigPc, trigRet>>

reasonVars == <<reasonPc, reasonRet>>

---------------------------------------------------------------------------
(* Bounds and input universes                                              *)

\* The longest "rules" array of a configuration document.
MaxRules == 2

\* The largest scalar reading; the trigger value lies strictly inside.
MaxReading == 3

\* Asset names in the order std::map<std::string, ...> iterates them.
AssetOrder == <<"flow", "temp">>

AssetNames == {AssetOrder[i] : i \in 1..Len(AssetOrder)}

DatapointNames == {"p", "q"}

\* The trigger_value of the configured datapoints.
TriggerValue == MaxReading - 1

NoDoc == [kind |-> "none", rules |-> <<>>]

End == "<end>"

EmptyMap == <<>>

---------------------------------------------------------------------------
(* Configuration documents (the "rule_config" item, parsed)                *)

\* An entry of a rule's "datapoints" array.  name: the "name" member;
\* trigger_value: the "trigger_value" member when it is there and a number,
\* <<>> when it is missing or not a number (line 596 tests both at once).
DatapointEntry(name, trigger_value) ==
    [name |-> name, trigger_value |-> trigger_value]

\* An element of "rules" that has an "asset" and a "datapoints" member.
\* eval_all_datapoints is <<>> when the member is missing or not a JSON
\* bool (the default configuration carries the string "true").
RuleEntry(asset, eval_all, evaluation_data, window_data, time_interval, dps) ==
    [kind |-> "rule", asset |-> asset, eval_all_datapoints |-> eval_all,
     evaluation_data |-> evaluation_data, window_data |-> window_data,
     time_interval |-> time_interval, datapoints |-> dps]

\* An element of "rules" with neither an "asset" nor a "datapoints" member.
EmptyRule ==
    [kind |-> "empty", asset |-> "", eval_all_datapoints |-> <<>>,
     evaluation_data |-> <<>>, window_data |-> <<>>, time_interval |-> <<>>,
     datapoints |-> <<>>]

BothDatapoints ==
    <<DatapointEntry(<<"p">>, <<TriggerValue>>),
      DatapointEntry(<<"q">>, <<TriggerValue>>)>>

\* The rules the documents of the model are built from: the two shapes
\* configure skips, and three it compiles (the second with entries that
\* lack a name or a numeric trigger_value around the two it keeps).
RuleUniverse ==
    { EmptyRule,
      RuleEntry("", <<TRUE>>, <<>>, <<>>, <<>>, BothDatapoints),
      RuleEntry("flow", <<TRUE>>, <<>>, <<>>, <<>>, BothDatapoints),
      RuleEntry("flow", <<FALSE>>, <<"Single Item">>, <<"Average">>, <<>>,
                <<DatapointEntry(<<>>, <<TriggerValue>>)>> \o BothDatapoints
                \o <<DatapointEntry(<<"p">>, <<>>)>>),
      RuleEntry("temp", <<>>, <<"Window">>, <<"All">>, <<30>>,
                <<DatapointEntry(<<"p">>, <<TriggerValue>>)>>) }

RulesDoc(rules) == [kind |-> "rules", rules |-> rules]

\* Documents that parse but carry no usable "rules": no such member, or a
\* member that is not an array.
NoRulesDoc == [kind |-> "noRules", rules |-> <<>>]

RulesNotArrayDoc == [kind |-> "rulesNotArray", rules |-> <<>>]

BadDocs == {[kind |-> "parseError", rules |-> <<>>], NoRulesDoc, RulesNotArrayDoc}

SeqsUpTo(S, n) == UNION {[1..k -> S] : k \in 0..n}

\* What the host may hand to plugin_init / plugin_reconfigure.
Docs == BadDocs \cup {RulesDoc(rs) : rs \in SeqsUpTo(RuleUniverse, MaxRules)}

---------------------------------------------------------------------------
(* BuiltinRule and RuleTrigger (the host's base classes)                   *)

\* Datapoint(name, DatapointValue(double)): its type is always T_FLOAT.
Datapoint(name, maxVal) == [name |-> name, type |-> "T_FLOAT", value |-> maxVal]

\* new RuleTrigger(name, point) followed by addEvaluation(...).
RuleTrigger(point, evaluation, interval, evalAll) ==
    [evaluation |-> evaluation, interval |-> interval, evalAll |-> evalAll,
     datapoints |-> <<point>>]

hasTriggers(m) == DOMAIN m # {}

removeTriggers(m) == EmptyMap

\* A trigger for an asset that has none is stored; one for an asset that
\* has a RuleTrigger already adds its datapoints to that RuleTrigger.
addTrigger(m, asset, trigger) ==
    IF asset \in DOMAIN m
    THEN [m EXCEPT ![asset].datapoints = @ \o trigger.datapoints]
    ELSE [a \in DOMAIN m \cup {asset} |-> IF a = asset THEN trigger ELSE m[a]]

StateCleared == "StateCleared"

StateTriggered == "StateTriggered"

setState(evalRet_) == IF evalRet_ THEN StateTriggered ELSE StateCleared

---------------------------------------------------------------------------
(* OutOfBound::configure                                                   *)

\* Lines 507-513: the document parses, has "rules", and it is an array.
HasRulesArray(doc) == doc.kind = "rules"

\* Lines 536-612 for one element of "rules": the addTrigger calls it makes.
RuleAdditions(rule) ==
    IF rule.kind = "empty" \/ rule.asset = ""
    THEN <<>>
    ELSE LET window_evaluation == rule.evaluation_data = <<"Window">>
             hasWindow   == window_evaluation /\ rule.window_data # <<>>
             window_data == IF hasWindow THEN rule.window_data[1] ELSE ""
             timeInterval ==
                 IF hasWindow /\ window_data # "" /\ rule.time_interval # <<>>
                 THEN rule.time_interval[1] ELSE 0
             evalAlldatapoints ==
                 IF rule.eval_all_datapoints # <<>>
                 THEN rule.eval_all_datapoints[1] ELSE TRUE
             kept == SelectSeq(rule.datapoints,
                               LAMBDA d : d.name # <<>> /\ d.trigger_value # <<>>)
         IN  [i \in 1..Len(kept) |->
                [asset   |-> rule.asset,
                 trigger |-> RuleTrigger(Datapoint(kept[i].name[1],
                                                   kept[i].trigger_value[1]),
                                         window_data, timeInterval,
                                         evalAlldatapoints)]]

\* Lines 534-620: the addTrigger calls of the whole "rules" array, in order.
RECURSIVE Additions(_)
Additions(rules) ==
    IF rules = <<>> THEN <<>>
    ELSE RuleAdditions(Head(rules)) \o Additions(Tail(rules))

Running == evalPc # "aborted"

\* ConfigureBegin with the removal of lines 517-523 moved ahead of the
\* tests of lines 507-513: a document without a "rules" array empties the set.
ConfigureBegin_RemovesFirst(doc) ==
    /\ Running
    /\ cfgPc = "idle"
    /\ cfgDoc' = doc
    /\ cfgOld' = triggers
    /\ IF HasRulesArray(doc)
       THEN /\ cfgPc' = "lockRemove"
            /\ cfgQueue' = Additions(doc.rules)
            /\ triggers' = triggers
       ELSE /\ cfgPc' = "ret"
            /\ cfgQueue' = <<>>
            /\ triggers' = removeTriggers(triggers)
    /\ UNCHANGED <<state, mutex, ndebug, handle, evalVars, trigVars, reasonVars>>

\* plugin_init (line 185) and plugin_reconfigure (line 331) call configure;
\* lines 502-513.
ConfigureBegin(doc) ==
    /\ Running
    /\ cfgPc = "idle"
    /\ cfgDoc' = doc
    /\ cfgOld' = triggers
    /\ IF HasRulesArray(doc)
       THEN /\ cfgPc' = "lockRemove"
            /\ cfgQueue' = Additions(doc.rules)
       ELSE /\ cfgPc' = "ret"
            /\ cfgQueue' = <<>>
    /\ UNCHANGED <<triggers, state, mutex, ndebug, handle, evalVars, trigVars,
                   reasonVars>>

\* Line 517.
ConfigureLockRemove ==
    /\ Running
    /\ cfgPc = "lockRemove"
    /\ mutex = "free"
    /\ mutex' = "configure"
    /\ cfgPc' = "remove"
    /\ UNCHANGED <<triggers, state, ndebug, handle, cfgDoc, cfgQueue, cfgOld, evalVars,
                   trigVars, reasonVars>>

\* ConfigureRemove without the call of removeTriggers (line 520).
ConfigureRemove_KeepsTriggers ==
    /\ Running
    /\ cfgPc = "remove"
    /\ mutex' = "free"
    /\ cfgPc' = "rules"
    /\ UNCHANGED <<triggers, state, ndebug, handle, cfgDoc, cfgQueue, cfgOld,
                   evalVars, trigVars, reasonVars>>

\* Lines 518-523.  plugin_eval holds no lock: a removal made while it walks
\* the map is a data race on the map and on the RuleTriggers it deletes.
ConfigureRemove ==
    /\ Running
    /\ cfgPc = "remove"
    /\ triggers' = IF hasTriggers(triggers) THEN removeTriggers(triggers)
                   ELSE triggers
    /\ evalRaced' = (evalRaced \/ (evalPc = "iter" /\ hasTriggers(triggers)))
    /\ mutex' = "free"
    /\ cfgPc' = "rules"
    /\ UNCHANGED <<state, ndebug, handle, cfgDoc, cfgQueue, cfgOld, evalPc, evalDoc,
                   evalT, eval, evalResults, evalRet, evalLast, evalGood,
                   trigVars, reasonVars>>

\* Line 608, reached once per datapoint that has a name and a numeric
\* trigger_value.
ConfigureLockAdd ==
    /\ Running
    /\ cfgPc = "rules"
    /\ cfgQueue # <<>>
    /\ mutex = "free"
    /\ mutex' = "configure"
    /\ cfgPc' = "add"
    /\ UNCHANGED <<triggers, state, ndebug, handle, cfgDoc, cfgQueue, cfgOld, evalVars,
                   trigVars, reasonVars>>

\* Lines 609-611.
ConfigureAdd ==
    /\ Running
    /\ cfgPc = "add"
    /\ triggers' = addTrigger(triggers, Head(cfgQueue).asset,
                              Head(cfgQueue).trigger)
    /\ evalRaced' = (evalRaced \/ evalPc = "iter")
    /\ cfgQueue' = Tail(cfgQueue)
    /\ mutex' = "free"
    /\ cfgPc' = "rules"
    /\ UNCHANGED <<state, ndebug, handle, cfgDoc, cfgOld, evalPc, evalDoc, evalT, eval,
                   evalResults, evalRet, evalLast, evalGood, trigVars,
                   reasonVars>>

\* Lines 620-624: the loop over "rules" is over.
ConfigureRulesDone ==
    /\ Running
    /\ cfgPc = "rules"
    /\ cfgQueue = <<>>
    /\ cfgPc' = "ret"
    /\ UNCHANGED <<triggers, state, mutex, ndebug, handle, cfgDoc, cfgQueue, cfgOld,
                   evalVars, trigVars, reasonVars>>

\* configure returns to plugin_init / plugin_reconfigure, and that to the host.
ConfigureReturn ==
    /\ Running
    /\ cfgPc = "ret"
    /\ cfgPc' = "idle"
    /\ cfgDoc' = NoDoc
    /\ cfgOld' = EmptyMap
    /\ handle' = TRUE
    /\ UNCHANGED <<triggers, state, mutex, ndebug, cfgQueue, evalVars, trigVars,
                   reasonVars>>

---------------------------------------------------------------------------
(* Reading documents (the assetValues string of plugin_eval, parsed)       *)

Dbl(x) == [t |-> "double", v |-> <<x>>]

Int32(x) == [t |-> "int", v |-> <<x>>]

\* 3000000000: above INT_MAX, so rapidjson flags it Uint but not Int.
UintHi == [t |-> "uint", v |-> <<-1294967296>>]

\* An integer in 2^32 .. 2^63-1, such as 5000000000.
Int64Hi == [t |-> "int64", v |-> <<>>]

\* An integer in 2^63 .. 2^64-1, such as 18446744073709551615.
Uint64Hi == [t |-> "uint64", v |-> <<>>]

Str == [t |-> "string", v |-> <<>>]

\* A JSON array; v holds its elements.
Arr(elems) == [t |-> "array", v |-> elems]

Scalars ==
    {Int32(x) : x \in 1..MaxReading} \cup {Dbl(MaxReading), UintHi, Int64Hi, Uint64Hi}

PointValues ==
    Scalars \cup {Str, Arr(<<>>), Arr(<<Int32(1), Int32(MaxReading)>>)}

\* The JSON objects with members among `names`: "p" from P, "q" from Q.
Objects(names, P, Q) ==
    {[n \in D |-> IF n = "p" THEN x ELSE y] : x \in P, y \in Q, D \in SUBSET names}

FlowReadings == Objects({"p", "q"}, PointValues, {Int32(1), Int32(MaxReading)})

TempReadings ==
    Objects({"p"},
            {Int32(1), Int32(MaxReading), Arr(<<Int32(MaxReading), Int32(1)>>)},
            {Int32(1)})

ReadingParseError == [kind |-> "parseError", assets |-> EmptyMap]

ReadingDoc(assets) == [kind |-> "object", assets |-> assets]

\* What the host may hand to plugin_eval.
Readings ==
    {ReadingParseError} \cup
    {ReadingDoc([a \in D |-> IF a = "flow" THEN f ELSE t]) :
        f \in FlowReadings, t \in TempReadings, D \in SUBSET AssetNames}

NoReading == [kind |-> "none", assets |-> EmptyMap]

---------------------------------------------------------------------------
(* rapidjson's view of a number (Value::IsXxx)                             *)

IsDouble(point) == point.t = "double"

IsInt(point) == point.t = "int"

IsUint(point) == point.t = "uint" \/ (point.t = "int" /\ point.v[1] >= 0)

IsInt64(point) == point.t \in {"int", "uint", "int64"}

IsUint64(point) ==
    point.t \in {"uint", "int64", "uint64"} \/ (point.t = "int" /\ point.v[1] >= 0)

\* Value::GetType()
GetType(point) ==
    CASE point.t \in {"double", "int", "uint", "int64", "uint64"} -> "kNumberType"
      [] point.t = "array"  -> "kArrayType"
      [] point.t = "string" -> "kStringType"

Truth(b) == IF b THEN "true" ELSE "false"

---------------------------------------------------------------------------
(* evalData, checkDoubleLimit, evalAsset                                   *)
(* Each returns "true" or "false", or "abort" when a RAPIDJSON_ASSERT that *)
(* is compiled in fails (the process ends in abort()).                     *)

\* Lines 345-382.  GetInt() asserts IsInt() and returns the low 32 bits as
\* an int; GetInt64() asserts IsInt64() and returns the 64 bits as an
\* int64_t: positive and above every limit for an "int64" number, negative
\* and below every limit for a "uint64" one.
evalData(point, limitValue) ==
    IF IsDouble(point)
    THEN Truth(point.v[1] > limitValue)
    ELSE IF IsInt(point) \/ IsUint(point) \/ IsInt64(point) \/ IsUint64(point)
         THEN IF IsInt(point) \/ IsUint(point)
              THEN IF ~IsInt(point) /\ ~ndebug
                   THEN "abort"
                   ELSE Truth(point.v[1] > limitValue)
              ELSE IF ~IsInt64(point) /\ ~ndebug
                   THEN "abort"
                   ELSE Truth(point.t = "int64")
         ELSE "false"

\* Lines 405-414: the loop over the elements of an array, from element i.
\* Line 409 hands evalData the array itself, not the element *itr.
RECURSIVE checkArray(_, _, _, _)
checkArray(point, limitValue, i, ret) ==
    IF i > Len(point.v)
    THEN ret
    ELSE LET r == evalData(point, limitValue)
         IN  IF r = "true" \/ r = "abort"
             THEN r
             ELSE checkArray(point, limitValue, i + 1, r)

\* Lines 393-420.
checkDoubleLimit(point, limitValue) ==
    CASE GetType(point) = "kNumberType" -> evalData(point, limitValue)
      [] GetType(point) = "kArrayType"  -> checkArray(point, limitValue, 1, "false")
      [] OTHER -> "false"

\* Lines 438-472: the loop over the configured datapoints, from the i-th.
RECURSIVE evalDatapoints(_, _, _, _, _)
evalDatapoints(assetValue, datapoints, evalAlldatapoints, i, assetEval) ==
    IF i > Len(datapoints)
    THEN assetEval
    ELSE LET it == datapoints[i]
         IN  IF it.name \in DOMAIN assetValue
             THEN LET r == IF it.type = "T_FLOAT"
                           THEN checkDoubleLimit(assetValue[it.name], it.value)
                           ELSE assetEval
                  IN  IF r = "abort" \/ (r = "true" /\ evalAlldatapoints = FALSE)
                      THEN r
                      ELSE evalDatapoints(assetValue, datapoints,
                                          evalAlldatapoints, i + 1, r)
             ELSE evalDatapoints(assetValue, datapoints, evalAlldatapoints,
                                 i + 1, "false")

\* Lines 431-476.
evalAsset(assetValue, rule) ==
    evalDatapoints(assetValue, rule.datapoints, rule.evalAll, 1, "false")

---------------------------------------------------------------------------
(* plugin_eval                                                             *)

Rank(a) == CHOOSE i \in 1..Len(AssetOrder) : AssetOrder[i] = a

\* The first key of the map at or after rank r, End when there is none.
KeyFrom(m, r) ==
    LET S == {a \in DOMAIN m : Rank(a) >= r}
    IN  IF S = {} THEN End ELSE CHOOSE a \in S : \A b \in S : Rank(a) <= Rank(b)

\* EvalBegin with setState(false) ahead of the early return of line 268.
EvalBegin_ClearsState(assetValues) ==
    /\ Running
    /\ handle
    /\ evalPc = "idle"
    /\ evalDoc' = assetValues
    /\ IF assetValues.kind = "parseError"
       THEN /\ evalPc' = "ret"
            /\ evalRet' = FALSE
            /\ evalLast' = "false"
            /\ state' = setState(FALSE)
            /\ UNCHANGED <<evalT, eval, evalResults, evalRaced, evalGood>>
       ELSE /\ evalPc' = "iter"
            /\ eval' = FALSE
            /\ evalT' = KeyFrom(triggers, 1)
            /\ evalResults' = EmptyMap
            /\ evalRaced' = FALSE
            /\ state' = state
            /\ UNCHANGED <<evalRet, evalLast, evalGood>>
    /\ UNCHANGED <<triggers, mutex, ndebug, handle, cfgVars, trigVars, reasonVars>>

\* Lines 264-278.
EvalBegin(assetValues) ==
    /\ Running
    /\ handle
    /\ evalPc = "idle"
    /\ evalDoc' = assetValues
    /\ IF assetValues.kind = "parseError"
       THEN /\ evalPc' = "ret"
            /\ evalRet' = FALSE
            /\ evalLast' = "false"
            /\ UNCHANGED <<evalT, eval, evalResults, evalRaced, evalGood>>
       ELSE /\ evalPc' = "iter"
            /\ eval' = FALSE
            /\ evalT' = KeyFrom(triggers, 1)
            /\ evalResults' = EmptyMap
            /\ evalRaced' = FALSE
            /\ UNCHANGED <<evalRet, evalLast, evalGood>>
    /\ UNCHANGED <<triggers, state, mutex, ndebug, handle, cfgVars, trigVars,
                   reasonVars>>

\* Lines 278-295: one turn of the loop over the map.
EvalStep ==
    /\ Running
    /\ evalPc = "iter"
    /\ ~evalRaced
    /\ evalT # End
    /\ LET assetName == evalT
           r == IF assetName \in DOMAIN evalDoc.assets
                THEN evalAsset(evalDoc.assets[assetName], triggers[assetName])
                ELSE "false"
       IN  IF r = "abort"
           THEN /\ evalPc' = "aborted"
                /\ UNCHANGED <<eval, evalT, evalResults>>
           ELSE /\ evalPc' = "iter"
                /\ eval' = (r = "true")
                /\ evalT' = KeyFrom(triggers, Rank(assetName) + 1)
                /\ evalResults' =
                     IF assetName \in DOMAIN evalDoc.assets
                     THEN [a \in DOMAIN evalResults \cup {assetName} |->
                             IF a = assetName THEN r = "true" ELSE evalResults[a]]
                     ELSE evalResults
    /\ UNCHANGED <<triggers, state, mutex, ndebug, handle, cfgVars, evalDoc,
                   evalRaced, evalRet, evalLast, evalGood, trigVars, reasonVars>>

\* EvalEnd without the call of setState (line 298).
EvalEnd_KeepsState ==
    /\ Running
    /\ evalPc = "iter"
    /\ ~evalRaced
    /\ evalT = End
    /\ evalRet' = eval
    /\ evalLast' = Truth(eval)
    /\ evalGood' = Truth(eval)
    /\ evalPc' = "ret"
    /\ UNCHANGED <<triggers, state, mutex, ndebug, handle, cfgVars, evalDoc, evalT,
                   eval, evalResults, evalRaced, trigVars, reasonVars>>

\* Lines 297-300.
EvalEnd ==
    /\ Running
    /\ evalPc = "iter"
    /\ ~evalRaced
    /\ evalT = End
    /\ state' = setState(eval)
    /\ evalRet' = eval
    /\ evalLast' = Truth(eval)
    /\ evalGood' = Truth(eval)
    /\ evalPc' = "ret"
    /\ UNCHANGED <<triggers, mutex, ndebug, handle, cfgVars, evalDoc, evalT, eval,
                   evalResults, evalRaced, trigVars, reasonVars>>

\* Lines 278-300 once a concurrent configure has written the map under the
\* iterator: behaviour is undefined.  The call may return either value (and
\* set the state to match) or crash.
EvalRaced ==
    /\ Running
    /\ evalPc = "iter"
    /\ evalRaced
    /\ \E outcome \in {"true", "false", "abort"} :
         IF outcome = "abort"
         THEN /\ evalPc' = "aborted"
              /\ UNCHANGED <<state, eval, evalRet, evalLast, evalGood>>
         ELSE /\ evalPc' = "ret"
              /\ eval' = (outcome = "true")
              /\ state' = setState(outcome = "true")
              /\ evalRet' = (outcome = "true")
              /\ evalLast' = outcome
              /\ evalGood' = outcome
    /\ UNCHANGED <<triggers, mutex, ndebug, handle, cfgVars, evalDoc, evalT,
                   evalResults, evalRaced, trigVars, reasonVars>>

\* plugin_eval returns to the host.
EvalReturn ==
    /\ Running
    /\ evalPc = "ret"
    /\ evalPc' = "idle"
    /\ evalDoc' = NoReading
    /\ evalT' = End
    /\ eval' = FALSE
    /\ evalResults' = EmptyMap
    /\ evalRaced' = FALSE
    /\ evalRet' = FALSE
    /\ UNCHANGED <<triggers, state, mutex, ndebug, handle, cfgVars, evalLast,
                   evalGood, trigVars, reasonVars>>

---------------------------------------------------------------------------
(* plugin_triggers and plugin_reason                                       *)

\* Lines 226-235: the JSON object written for one asset.
TriggerEntry(asset, rule) ==
    IF rule.evaluation # ""
    THEN [asset |-> asset, label |-> <<rule.evaluation, rule.interval>>]
    ELSE [asset |-> asset, label |-> <<>>]

\* Lines 213-243: the document returned, as the list under "triggers".
TriggersDocument(m) ==
    IF ~hasTriggers(m)
    THEN <<>>
    ELSE LET keys == SelectSeq(AssetOrder, LAMBDA a : a \in DOMAIN m)
         IN  [i \in 1..Len(keys) |-> TriggerEntry(keys[i], m[keys[i]])]

NoTriggersDocument == <<[asset |-> "", label |-> <<>>]>>

\* Line 211.
TriggersLock ==
    /\ Running
    /\ handle
    /\ trigPc = "idle"
    /\ mutex = "free"
    /\ mutex' = "triggers"
    /\ trigPc' = "locked"
    /\ UNCHANGED <<triggers, state, ndebug, handle, cfgVars, evalVars, trigRet,
                   reasonVars>>

\* Lines 213-248.
TriggersRead ==
    /\ Running
    /\ trigPc = "locked"
    /\ trigRet' = TriggersDocument(triggers)
    /\ mutex' = "free"
    /\ trigPc' = "ret"
    /\ UNCHANGED <<triggers, state, ndebug, handle, cfgVars, evalVars, reasonVars>>

\* plugin_triggers returns to the host.
TriggersReturn ==
    /\ Running
    /\ trigPc = "ret"
    /\ trigPc' = "idle"
    /\ trigRet' = NoTriggersDocument
    /\ UNCHANGED <<triggers, state, mutex, ndebug, handle, cfgVars, evalVars,
                   reasonVars>>

\* Lines 308-317.
Reason ==
    /\ Running
    /\ handle
    /\ reasonPc = "idle"
    /\ reasonRet' = IF state = StateTriggered THEN "triggered" ELSE "cleared"
    /\ reasonPc' = "ret"
    /\ UNCHANGED <<triggers, state, mutex, ndebug, handle, cfgVars, evalVars,
                   trigVars>>

\* plugin_reason returns to the host.
ReasonReturn ==
    /\ Running
    /\ reasonPc = "ret"
    /\ reasonPc' = "idle"
    /\ reasonRet' = ""
    /\ UNCHANGED <<triggers, state, mutex, ndebug, handle, cfgVars, evalVars,
                   trigVars>>

---------------------------------------------------------------------------
(* The specifications                                                      *)

\* The state after `new OutOfBound()` (line 184), in either build.
Init ==
    /\ triggers = EmptyMap
    /\ state = StateCleared
    /\ mutex = "free"
    /\ ndebug \in BOOLEAN
    /\ handle = FALSE
    /\ cfgPc = "idle"
    /\ cfgDoc = NoDoc
    /\ cfgQueue = <<>>
    /\ cfgOld = EmptyMap
    /\ evalPc = "idle"
    /\ evalDoc = NoReading
    /\ evalT = End
    /\ eval = FALSE
    /\ evalResults = EmptyMap
    /\ evalRaced = FALSE
    /\ evalRet = FALSE
    /\ evalLast = "none"
    /\ evalGood = "none"
    /\ trigPc = "idle"
    /\ trigRet = NoTriggersDocument
    /\ reasonPc = "idle"
    /\ reasonRet = ""

\* No call is in progress.
Quiet == cfgPc = "idle" /\ evalPc = "idle" /\ trigPc = "idle" /\ reasonPc = "idle"

\* A host that makes one call at a time.
Next ==
    \/ \E doc \in Docs : Quiet /\ ConfigureBegin(doc)
    \/ ConfigureLockRemove
    \/ ConfigureRemove
    \/ ConfigureLockAdd
    \/ ConfigureAdd
    \/ ConfigureRulesDone
    \/ ConfigureReturn
    \/ \E assetValues \in Readings : Quiet /\ EvalBegin(assetValues)
    \/ EvalStep
    \/ EvalEnd
    \/ EvalReturn
    \/ Quiet /\ TriggersLock
    \/ TriggersRead
    \/ TriggersReturn
    \/ Quiet /\ Reason
    \/ ReasonReturn

Spec == Init /\ [][Next]_vars

\* The documents of the host whose threads call concurrently.
DocsThreads ==
    { [kind |-> "parseError", rules |-> <<>>],
      RulesDoc(<<RuleEntry("flow", <<TRUE>>, <<>>, <<>>, <<>>, BothDatapoints)>>),
      RulesDoc(<<RuleEntry("temp", <<>>, <<"Window">>, <<"All">>, <<30>>,
                           <<DatapointEntry(<<"p">>, <<TriggerValue>>)>>)>>) }

ReadingsThreads ==
    { ReadingParseError,
      ReadingDoc([a \in AssetNames |->
                    IF a = "flow"
                    THEN [n \in {"p", "q"} |-> Int32(MaxReading)]
                    ELSE [n \in {"p"} |-> Int32(MaxReading)]]),
      ReadingDoc([a \in {"flow"} |-> [n \in {"p"} |-> UintHi]]) }

\* A host whose threads call configure, evaluate, describe and reason at
\* the same time (one thread per kind of call).
NextThreads ==
    \/ \E doc \in DocsThreads : ConfigureBegin(doc)
    \/ ConfigureLockRemove
    \/ ConfigureRemove
    \/ ConfigureLockAdd
    \/ ConfigureAdd
    \/ ConfigureRulesDone
    \/ ConfigureReturn
    \/ \E assetValues \in ReadingsThreads : EvalBegin(assetValues)
    \/ EvalStep
    \/ EvalEnd
    \/ EvalRaced
    \/ EvalReturn
    \/ TriggersLock
    \/ TriggersRead
    \/ TriggersReturn
    \/ Reason
    \/ ReasonReturn

SpecThreads == Init /\ [][NextThreads]_vars

---------------------------------------------------------------------------
(* What the claims speak of                                                *)

\* The number is greater than the limit, as numbers.  The limits of the
\* model are below 2^31 and the numbers of the three large classes are not.
NumberGreater(point, limitValue) ==
    IF point.t \in {"double", "int"} THEN point.v[1] > limitValue ELSE TRUE

IsNumber(point) == point.t \in {"double", "int", "uint", "int64", "uint64"}

\* A reading exceeds a limit: a number that is greater, or an array of
\* numbers one of which is greater.
Exceeds(point, limitValue) ==
    \/ IsNumber(point) /\ NumberGreater(point, limitValue)
    \/ /\ point.t = "array"
       /\ \E i \in 1..Len(point.v) : NumberGreater(point.v[i], limitValue)

\* The TriggerSet configure builds from a "rules" array in a new engine.
RECURSIVE AddAll(_, _)
AddAll(m, additions) ==
    IF additions = <<>> THEN m
    ELSE AddAll(addTrigger(m, Head(additions).asset, Head(additions).trigger),
                Tail(additions))

Compiled(rules) == AddAll(EmptyMap, Additions(rules))

ReasonOf(result) == IF result = "true" THEN "triggered" ELSE "cleared"

StateOf(result) == IF result = "true" THEN StateTriggered ELSE StateCleared

\* The evaluator is inside, or at the return of, a call whose document parsed.
Evaluating == evalPc \in {"iter", "ret"} /\ evalDoc.kind = "object"

---------------------------------------------------------------------------
(* The claims                                                              *)

\* C1: plugin_eval returns true if and only if the TriggerSet is not empty
\* and every asset of it is in the reading document and got a true result
\* from evalAsset in this call.
C1_AllAssetsMustTrigger ==
    (evalPc = "ret" /\ evalDoc.kind = "object") =>
        (evalRet <=> /\ hasTriggers(triggers)
                     /\ \A a \in DOMAIN triggers :
                          /\ a \in DOMAIN evalDoc.assets
                          /\ a \in DOMAIN evalResults
                          /\ evalResults[a])

\* A reading all of whose members are doubles or integers of the int32 range.
PlainNumbers(reading) ==
    \A n \in DOMAIN reading : reading[n].t \in {"double", "int"}

\* C2: for an asset configured with evalAllDatapoints = true, evalAsset
\* returns true if and only if every configured datapoint is in the asset's
\* reading and exceeds its limit, whatever its place in the stored order
\* (stated for the readings of plain numbers, where arrays and the wide
\* integer classes play no part).
C2_EvalAllNeedsEveryDatapoint ==
    Evaluating =>
        \A a \in DOMAIN evalResults :
            LET rule == triggers[a]
                reading == evalDoc.assets[a]
            IN  (rule.evalAll /\ PlainNumbers(reading)) =>
                  (evalResults[a] <=>
                     \A i \in 1..Len(rule.datapoints) :
                        /\ rule.datapoints[i].name \in DOMAIN reading
                        /\ Exceeds(reading[rule.datapoints[i].name],
                                   rule.datapoints[i].value))

\* C3: a plugin_triggers call that reads while a configure call is under way
\* returns the summary of the set installed before that call or the summary
\* of the complete set the call installs, never one of a set in between.
C3_ReaderSeesCompleteSet ==
    [][(trigPc = "locked" /\ trigPc' = "ret" /\ cfgPc # "idle") =>
          trigRet' \in {TriggersDocument(cfgOld),
                        TriggersDocument(IF HasRulesArray(cfgDoc)
                                         THEN Compiled(cfgDoc.rules)
                                         ELSE cfgOld)}]_vars

\* C4 as stated: the state is Cleared before any evaluate call and after
\* that it is Triggered if the most recent evaluate call returned true and
\* Cleared if it returned false; plugin_reason reports exactly that.
C4_StateFollowsLastEvaluate ==
    /\ state = StateOf(evalLast)
    /\ reasonPc = "ret" => reasonRet = ReasonOf(evalLast)

\* C4 as amended: the state is Cleared before any evaluate call whose
\* document parsed and after that it is Triggered if the most recent such
\* call returned true and Cleared if it returned false; a call whose
\* document does not parse leaves it alone; plugin_reason reports the
\* result of the most recent evaluate call whose document parsed.
C4_StateFollowsLastParsedEvaluate ==
    /\ state = StateOf(evalGood)
    /\ reasonPc = "ret" => reasonRet = ReasonOf(evalGood)
    /\ (evalPc = "ret" /\ evalDoc.kind = "object") => evalGood = Truth(evalRet)

\* C4's case: plugin_reason answers "triggered" although the most recent
\* evaluate call (its document did not parse) returned false.
C4_Witness ==
    reasonPc = "ret" /\ reasonRet = "triggered" /\ evalLast = "false"

C6_ArrayAnyElementExceeds ==
    Evaluating =>
        \A a \in DOMAIN evalResults :
            LET rule == triggers[a]
                reading == evalDoc.assets[a]
                it == rule.datapoints[1]
            IN  ( /\ Len(rule.datapoints) = 1
                  /\ it.name \in DOMAIN reading
                  /\ reading[it.name].t = "array" ) =>
                  (evalResults[a] <=>
                     \E i \in 1..Len(reading[it.name].v) :
                        NumberGreater(reading[it.name].v[i], it.value))

\* C7: for an asset configured with evalAllDatapoints = false, evalAsset
\* returns true if and only if some configured datapoint is in the asset's
\* reading with a scalar number greater than its limit.
C7_AnyDatapointSuffices ==
    Evaluating =>
        \A a \in DOMAIN evalResults :
            LET rule == triggers[a]
                reading == evalDoc.assets[a]
            IN  ~rule.evalAll =>
                  (evalResults[a] <=>
                     \E i \in 1..Len(rule.datapoints) :
                        /\ rule.datapoints[i].name \in DOMAIN reading
                        /\ IsNumber(reading[rule.datapoints[i].name])
                        /\ NumberGreater(reading[rule.datapoints[i].name],
                                         rule.datapoints[i].value))

\* C8: when a configure call with a "rules" array returns, the TriggerSet is
\* the one the same document builds in a new engine, whatever was installed
\* before: nothing of the earlier document survives.
C8_WholeDocumentReplace ==
    (cfgPc = "ret" /\ HasRulesArray(cfgDoc)) => triggers = Compiled(cfgDoc.rules)

\* C8's case: a reconfigure returns, and an asset that had triggers before
\* the call has none after it while another asset has.
C8_Witness ==
    /\ cfgPc = "ret"
    /\ HasRulesArray(cfgDoc)
    /\ hasTriggers(triggers)
    /\ \E a \in DOMAIN cfgOld : a \notin DOMAIN triggers

\* C9: in no state is plugin_eval walking the trigger map while configure
\* is inside a critical section of the configuration mutex in which it
\* removes or adds triggers.
C9_EvalNeverOverlapsConfigure ==
    ~( /\ evalPc = "iter"
       /\ mutex = "configure"
       /\ cfgPc = "add" \/ (cfgPc = "remove" /\ hasTriggers(triggers)) )

\* C10: a plugin_eval call whose document does not parse returns false at
\* once: evalAsset is not called, and the state and the TriggerSet are left
\* as they were.
C10_ParseErrorLeavesState ==
    [][(evalPc = "idle" /\ evalPc' # "idle" /\ evalDoc'.kind = "parseError") =>
          /\ evalPc' = "ret"
          /\ evalRet' = FALSE
          /\ evalResults' = EmptyMap
          /\ state' = state
          /\ triggers' = triggers]_vars

\* C10's case: such a call is returning false while the state is Triggered.
C10_Witness ==
    /\ evalPc = "ret"
    /\ evalDoc.kind = "parseError"
    /\ evalRet = FALSE
    /\ state = StateTriggered

====
